---- MODULE Spec2Model ----
(***************************************************************************)
(* Out-of-core shuffle of a flat binary dataset file (utils/shuffle.py)    *)
(* and the block-size arithmetic of the command line (mlml.py).            *)
(*                                                                         *)
(* The dataset file is a sequence of values; a sample (row) is a run of    *)
(* num_features + 1 consecutive values.  A block is a sequence of rows.    *)
(* BlockBuffer, BlockWriter and BlockScope live in utils/blocks.py; they   *)
(* are modelled from their contracts (Sequential Block Reader, Sequential  *)
(* Block Writer, Scratch Scope, Sub-Buffer Cursor).                        *)
(***************************************************************************)
EXTENDS Integers, Sequences, FiniteSets

\* ------------------------------------------------------------------ bounds
MaxN == 8            \* largest total sample count n
MaxD == 1            \* largest feature count d
MaxFullShuffle == 2  \* blocks up to this length are shuffled to any permutation
MaxBufferMB == 2     \* largest --buffer value, in megabytes
MaxD8 == 2           \* largest --d drawn for preprocess_arguments
MaxN8 == 2           \* --n is drawn from 0..MaxN8 and from within MaxN8 of the budget's quotient

\* ------------------------------------------------------------- constants
ALGORITHMS == {"external_sort", "external_shuffle"}
\* an algorithm name outside ALGORITHMS
AlgorithmNames == ALGORITHMS \cup {"bogus"}

VARIABLES
    \* the call under study
    entry,              \* "shuffle_train" or "external_shuffle": the function called
    algorithm,          \* shuffle_train's algorithm argument
    arg_n,              \* the caller's n: samples in the dataset file
    arg_num_features,   \* the caller's d: the file's rows hold d + 1 values
    arg_num_per_block,  \* the caller's samples_per_block
    \* external_shuffle's frame
    n, num_features, num_per_block, num_buffers, shape,
    i, k, block, buffers, current_block, remaining_buffers,
    \* the objects of utils/blocks.py
    file,               \* the values stored at train_path
    rpos,               \* BlockBuffer over train_path: values consumed so far
    writerUsed,         \* BlockWriter: has it written yet
    scopeOpen,          \* BlockScope: inside the with block
    slots,              \* BlockScope: scratch slot index -> block
    cursorPos,          \* Sub-Buffer Cursor on slot x: rows consumed so far
    \* control
    pc, error,
    \* history of the run
    scopeAcquired,      \* has a BlockScope ever been entered
    nreads,             \* blocks the BlockBuffer over train_path has yielded
    nslotwrites,        \* scope.write_block calls that succeeded
    ncursors,           \* scope.get_block_buffer calls that succeeded
    nwrites,            \* writer.write calls that succeeded
    nrounds,            \* bodies of the while loop entered
    failedAt,           \* the step that raised, "" if none
    failedIndex,        \* i when it raised
    nshuffles,          \* np.random.shuffle calls made on a block just read
    writeSizes,         \* the rows of each block given to writer.write, in order
    pulled,             \* the next(buffer) calls of the current round, in order
    retired,            \* the slots whose cursor has raised StopIteration
    \* preprocess_arguments (mlml.py)
    ppc, buffer_mb, d8, dtype8, n8, npb8

vars == <<entry, algorithm, arg_n, arg_num_features, arg_num_per_block,
          n, num_features, num_per_block, num_buffers, shape,
          i, k, block, buffers, current_block, remaining_buffers,
          file, rpos, writerUsed, scopeOpen, slots, cursorPos,
          pc, error,
          scopeAcquired, nreads, nslotwrites, ncursors, nwrites, nrounds,
          failedAt, failedIndex, nshuffles, writeSizes, pulled, retired,
          ppc, buffer_mb, d8, dtype8, n8, npb8>>

callVars == <<entry, algorithm, arg_n, arg_num_features, arg_num_per_block>>
frameVars == <<n, num_features, num_per_block, num_buffers, shape,
               i, k, block, buffers, current_block, remaining_buffers>>
histVars == <<scopeAcquired, nreads, nslotwrites, ncursors, nwrites, nrounds,
              failedAt, failedIndex>>
logVars == <<nshuffles, writeSizes, pulled, retired>>
ioVars == <<file, rpos, writerUsed, scopeOpen, slots, cursorPos>>
preVars == <<ppc, buffer_mb, d8, dtype8, n8, npb8>>

\* ------------------------------------------------------------ sequences
Min(a, b) == IF a <= b THEN a ELSE b

\* counters of the run's history stop counting at CountCap
CountCap == MaxN + 3
Bump(c) == Min(c + 1, CountCap)

RECURSIVE Flatten(_)
Flatten(rows) ==
    IF rows = <<>> THEN <<>> ELSE Head(rows) \o Flatten(Tail(rows))

\* the rows of width w held by a sequence of values whose length is a multiple of w
Rows(values, w) ==
    [r \in 1..(Len(values) \div w) |-> SubSeq(values, (r - 1) * w + 1, r * w)]

Count(s, x) == Cardinality({j \in DOMAIN s : s[j] = x})
SameMultiset(s, t) ==
    /\ Len(s) = Len(t)
    /\ \A j \in DOMAIN s : Count(s, s[j]) = Count(t, s[j])

Remove(s, j) == SubSeq(s, 1, j - 1) \o SubSeq(s, j + 1, Len(s))

RECURSIVE Perms(_)
Perms(s) ==
    IF Len(s) <= 1 THEN {s}
    ELSE UNION {{<<s[j]>> \o p : p \in Perms(Remove(s, j))} : j \in DOMAIN s}

Rotate(s, r) == SubSeq(s, r + 1, Len(s)) \o SubSeq(s, 1, r)
Reverse(s) == [j \in DOMAIN s |-> s[Len(s) + 1 - j]]

\* np.random.shuffle(block): the orders of the rows the generator may leave.
\* Short blocks take every permutation; longer ones a rotation or a reversed
\* rotation, which keeps the draw small.
ShuffleOutcomes(s) ==
    IF Len(s) <= MaxFullShuffle THEN Perms(s)
    ELSE {Rotate(s, r) : r \in 0..(Len(s) - 1)}
         \cup {Reverse(Rotate(s, r)) : r \in 0..(Len(s) - 1)}

\* ------------------------------------------------------ optional values
None == <<>>
Some(x) == <<x>>
IsNone(o) == o = <<>>
Get(o) == o[1]

\* the dataset file as it is before the run: arg_n rows of arg_num_features + 1 values
File0 == [v \in 1..(arg_n * (arg_num_features + 1)) |-> v]

\* ------------------------------------------------- utils/blocks.py objects
EmptyMap == [x \in {} |-> 0]
Put(m, x, v) == [y \in DOMAIN m \cup {x} |-> IF y = x THEN v ELSE m[y]]

\* BlockBuffer(dtype, num_per_block, path, shape): values left to read
ReaderRemaining == Len(file) - rpos
\* the values the next block takes: num_per_block rows, fewer at the end of the file
ReaderTake(per_block, w) == Min(per_block * w, ReaderRemaining)
\* the next block, as rows of width w
ReaderBlock(per_block, w) ==
    Rows(SubSeq(file, rpos + 1, rpos + ReaderTake(per_block, w)), w)

\* BlockWriter.write(block): the file is created on the first write and
\* appended to by the later ones
WriterFile(blk) ==
    IF writerUsed THEN file \o Flatten(blk) ELSE Flatten(blk)

\* Sub-Buffer Cursor over slot x with chunk size c: exhausted once every row
\* of the slot has been yielded
CursorExhausted(x) == cursorPos[x] >= Len(slots[x])
\* its next chunk: c rows, fewer at the end of the slot
CursorChunk(x, c) ==
    SubSeq(slots[x], cursorPos[x] + 1, Min(cursorPos[x] + c, Len(slots[x])))

\* BlockScope.__exit__: every scratch slot is deleted
ScopeExit ==
    /\ scopeOpen' = FALSE
    /\ slots' = EmptyMap
    /\ cursorPos' = EmptyMap

\* --------------------------------------------------------------- frames
\* a function that has returned or raised holds no blocks and no cursors; the
\* arguments it was called with stay on record
FrameGone ==
    /\ UNCHANGED <<n, num_features, num_per_block, num_buffers, shape>>
    /\ i' = 0 /\ k' = 0
    /\ block' = <<>>
    /\ buffers' = <<>>
    /\ current_block' = None
    /\ remaining_buffers' = <<>>
    /\ pulled' = <<>>
    /\ retired' = {}
    /\ UNCHANGED <<nshuffles, writeSizes>>

\* an exception raised outside any with block: it reaches the caller
RaiseOutside(e, at) ==
    /\ pc' = "failed"
    /\ error' = e
    /\ failedAt' = at
    /\ failedIndex' = i
    /\ FrameGone
    /\ UNCHANGED <<callVars, ioVars, preVars>>
    /\ UNCHANGED <<scopeAcquired, nreads, nslotwrites, ncursors, nwrites, nrounds>>

\* (variant: the exception leaves the function without the scope being exited)
RaiseNoExit(e, at) ==
    /\ pc' = "failed"
    /\ error' = e
    /\ failedAt' = at
    /\ failedIndex' = i
    /\ FrameGone
    /\ UNCHANGED <<callVars, ioVars, preVars>>
    /\ UNCHANGED <<scopeAcquired, nreads, nslotwrites, ncursors, nwrites, nrounds>>

\* (variant: the exception is caught and the run goes on to the merge)
RaiseSwallowed(e, at) ==
    /\ pc' = "p2_while"
    /\ error' = e
    /\ failedAt' = at
    /\ failedIndex' = i
    /\ UNCHANGED <<callVars, frameVars, ioVars, preVars, logVars>>
    /\ UNCHANGED <<scopeAcquired, nreads, nslotwrites, ncursors, nwrites, nrounds>>

\* an exception raised inside `with BlockScope(...) as scope`: the scope is
\* exited and the exception goes on to the caller
Raise(e, at) ==
    /\ pc' = "failed"
    /\ error' = e
    /\ failedAt' = at
    /\ failedIndex' = i
    /\ ScopeExit
    /\ FrameGone
    /\ UNCHANGED <<callVars, file, rpos, writerUsed, preVars>>
    /\ UNCHANGED <<scopeAcquired, nreads, nslotwrites, ncursors, nwrites, nrounds>>

\* (variant: the chunk size is the block size, the division left out)
FloorDivWhole(a, q) == a

\* (variant: the chunk size is the number of blocks)
FloorDivNumBuffers(a, q) == q.num \div q.den

\* num_per_block // num_buffers, num_buffers being the quotient n / num_per_block
\* kept as the fraction num / den
FloorDiv(a, q) == (a * q.den) \div q.num

\* A call of shuffle_train or of external_shuffle on a file of arg_n samples of
\* arg_num_features + 1 values, with a block size between 1 and arg_n.
Init ==
    /\ entry \in {"shuffle_train", "external_shuffle"}
    /\ algorithm \in (IF entry = "shuffle_train" THEN AlgorithmNames
                                                 ELSE {"external_shuffle"})
    /\ arg_n \in 1..MaxN
    /\ arg_num_features \in 0..MaxD
    /\ arg_num_per_block \in 1..arg_n
    /\ n = 0 /\ num_features = 0 /\ num_per_block = 0
    /\ num_buffers = [num |-> 0, den |-> 1]
    /\ shape = <<0, 0>>
    /\ i = 0 /\ k = 0
    /\ block = <<>>
    /\ buffers = <<>>
    /\ current_block = None
    /\ remaining_buffers = <<>>
    /\ file = File0
    /\ rpos = 0
    /\ writerUsed = FALSE
    /\ scopeOpen = FALSE
    /\ slots = EmptyMap
    /\ cursorPos = EmptyMap
    /\ pc = "call"
    /\ error = ""
    /\ scopeAcquired = FALSE
    /\ nreads = 0 /\ nslotwrites = 0 /\ ncursors = 0 /\ nwrites = 0 /\ nrounds = 0
    /\ failedAt = ""
    /\ failedIndex = 0
    /\ nshuffles = 0
    /\ writeSizes = <<>>
    /\ pulled = <<>>
    /\ retired = {}
    /\ ppc = "idle" /\ buffer_mb = 0 /\ d8 = 0 /\ dtype8 = "float64" /\ n8 = 0 /\ npb8 = 0

\* ------------------------------------------------------------- the calls
\* external_shuffle(dtype, n, num_features, num_per_block, train_path) is entered
\* with its second, third and fourth positional arguments a, b, c
EnterExternalShuffle(a, b, c) ==
    /\ pc' = "es_start"
    /\ n' = a
    /\ num_features' = b
    /\ num_per_block' = c
    /\ UNCHANGED <<num_buffers, shape, i, k, block, buffers, current_block,
                   remaining_buffers>>
    /\ UNCHANGED <<callVars, ioVars, histVars, logVars, preVars, error>>

\* (variant: the stub hands its arguments to external_shuffle)
ExternalSortFallback(a, b, c) == EnterExternalShuffle(a, b, c)

\* external_sort(dtype, n, num_features, num_per_block, train_path): pass
ExternalSort(a, b, c) ==
    /\ pc' = "done"
    /\ UNCHANGED <<callVars, frameVars, ioVars, histVars, logVars, preVars, error>>

\* (variant: the assertion left out, any other name runs the shuffle)
ShuffleTrainNoAssert(algo, a_n, a_num_features, a_num_per_block) ==
    IF algo = "external_sort"
    THEN ExternalSort(a_n, a_num_per_block, a_num_features)
    ELSE EnterExternalShuffle(a_n, a_num_per_block, a_num_features)

\* shuffle_train(algorithm, dtype, n, num_features, num_per_block, train_path)
ShuffleTrainBody(algo, a_n, a_num_features, a_num_per_block) ==
    IF algo \notin ALGORITHMS
    THEN RaiseOutside("AssertionError", "shuffle_train")
    ELSE IF algo = "external_sort"
    THEN ExternalSort(a_n, a_num_per_block, a_num_features)
    ELSE EnterExternalShuffle(a_n, a_num_per_block, a_num_features)

ShuffleTrain ==
    /\ pc = "call"
    /\ entry = "shuffle_train"
    /\ ShuffleTrainBody(algorithm, arg_n, arg_num_features, arg_num_per_block)

\* external_shuffle called with its parameters in their declared order
CallExternalShuffle ==
    /\ pc = "call"
    /\ entry = "external_shuffle"
    /\ EnterExternalShuffle(arg_n, arg_num_features, arg_num_per_block)

\* ------------------------------------------------------ external_shuffle
\* (variant: the operands of the division exchanged)
NumBuffersInverse(total, per_block) == [num |-> per_block, den |-> total]

\* num_buffers = n / num_per_block: a true division, kept as the fraction num / den
NumBuffers(total, per_block) == [num |-> total, den |-> per_block]

\* num_buffers = n / num_per_block, then the with block is entered and the
\* writer, the reader and the cursor list are made
ES_Start ==
    /\ pc = "es_start"
    /\ IF num_per_block = 0
       THEN RaiseOutside("ZeroDivisionError", "es_start")
       ELSE /\ num_buffers' = NumBuffers(n, num_per_block)
            /\ scopeOpen' = TRUE
            /\ scopeAcquired' = TRUE
            /\ slots' = EmptyMap
            /\ cursorPos' = EmptyMap
            /\ shape' = <<num_per_block, num_features + 1>>
            /\ writerUsed' = FALSE
            /\ rpos' = 0
            /\ buffers' = <<>>
            /\ pc' = "p1_next"
            /\ UNCHANGED <<callVars, n, num_features, num_per_block, i, k, block,
                           current_block, remaining_buffers, file, error, preVars>>
            /\ UNCHANGED <<nreads, nslotwrites, ncursors, nwrites, nrounds,
                           failedAt, failedIndex, logVars>>

\* for i, block in enumerate(blocks): the reader yields the next block, is
\* exhausted, or cannot read.  Values left over that do not fill a row of the
\* shape (a truncated file) can only end in the read error.
P1_Next ==
    /\ pc = "p1_next"
    /\ \/ /\ ReaderRemaining = 0
          /\ pc' = "p2_while"
          /\ UNCHANGED <<callVars, frameVars, ioVars, histVars, logVars, preVars, error>>
       \/ /\ ReaderRemaining > 0
          /\ ReaderTake(shape[1], shape[2]) % shape[2] = 0
          /\ block' = ReaderBlock(shape[1], shape[2])
          /\ rpos' = rpos + ReaderTake(shape[1], shape[2])
          /\ i' = nreads
          /\ nreads' = nreads + 1
          /\ pc' = "p1_shuffle"
          /\ UNCHANGED <<callVars, n, num_features, num_per_block, num_buffers,
                         shape, k, buffers, current_block, remaining_buffers>>
          /\ UNCHANGED <<file, writerUsed, scopeOpen, slots, cursorPos, error, preVars>>
          /\ UNCHANGED <<scopeAcquired, nslotwrites, ncursors, nwrites, nrounds,
                         failedAt, failedIndex, logVars>>
       \/ /\ ReaderRemaining > 0
          /\ Raise("DatasetReadError", "p1_next")

\* np.random.shuffle(block)
P1_Shuffle ==
    /\ pc = "p1_shuffle"
    /\ \E s \in ShuffleOutcomes(block) : block' = s
    /\ nshuffles' = nshuffles + 1
    /\ pc' = "p1_write"
    /\ UNCHANGED <<callVars, n, num_features, num_per_block, num_buffers, shape,
                   i, k, buffers, current_block, remaining_buffers>>
    /\ UNCHANGED <<ioVars, histVars, writeSizes, pulled, retired, preVars, error>>

\* (variant: every block is written to slot 0)
P1_WriteBlockSlot0 ==
    /\ pc = "p1_write"
    /\ \/ /\ slots' = Put(slots, 0, block)
          /\ nslotwrites' = nslotwrites + 1
          /\ pc' = "p1_cursor"
          /\ UNCHANGED <<callVars, frameVars, preVars, error>>
          /\ UNCHANGED <<file, rpos, writerUsed, scopeOpen, cursorPos>>
          /\ UNCHANGED <<scopeAcquired, nreads, ncursors, nwrites, nrounds,
                         failedAt, failedIndex, logVars>>
       \/ Raise("DatasetWriteError", "p1_write")

\* scope.write_block(i, block)
P1_WriteBlock ==
    /\ pc = "p1_write"
    /\ \/ /\ slots' = Put(slots, i, block)
          /\ nslotwrites' = nslotwrites + 1
          /\ pc' = "p1_cursor"
          /\ UNCHANGED <<callVars, frameVars, preVars, error>>
          /\ UNCHANGED <<file, rpos, writerUsed, scopeOpen, cursorPos>>
          /\ UNCHANGED <<scopeAcquired, nreads, ncursors, nwrites, nrounds,
                         failedAt, failedIndex, logVars>>
       \/ Raise("DatasetWriteError", "p1_write")

\* buffer = scope.get_block_buffer(i, num_per_block // num_buffers, shape)
\* buffers.append(buffer)
P1_GetBuffer ==
    /\ pc = "p1_cursor"
    /\ \/ /\ i \in DOMAIN slots
          /\ cursorPos' = Put(cursorPos, i, 0)
          /\ buffers' = Append(buffers,
                 [slot |-> i, chunk |-> FloorDiv(num_per_block, num_buffers)])
          /\ ncursors' = ncursors + 1
          /\ pc' = "p1_next"
          /\ UNCHANGED <<callVars, n, num_features, num_per_block, num_buffers,
                         shape, i, k, block, current_block, remaining_buffers>>
          /\ UNCHANGED <<file, rpos, writerUsed, scopeOpen, slots, error, preVars>>
          /\ UNCHANGED <<scopeAcquired, nreads, nslotwrites, nwrites, nrounds,
                         failedAt, failedIndex, logVars>>
       \/ /\ i \notin DOMAIN slots
          /\ Raise("SlotNotFound", "p1_cursor")
       \/ Raise("DatasetReadError", "p1_cursor")

\* (variant: the chunk replaces the combined buffer instead of extending it)
CombineDrop(cur, blk) == Some(blk)

\* current_block = block if current_block is None, else
\* np.concatenate((current_block, block))
Combine(cur, blk) ==
    IF IsNone(cur) THEN Some(blk) ELSE Some(Get(cur) \o blk)

\* while buffers: current_block, remaining_buffers = None, []
\* An empty list ends the loop, the with block and the function.
P2_While ==
    /\ pc = "p2_while"
    /\ IF buffers = <<>>
       THEN /\ pc' = "done"
            /\ ScopeExit
            /\ FrameGone
            /\ UNCHANGED <<callVars, file, rpos, writerUsed, histVars, preVars, error>>
       ELSE /\ current_block' = None
            /\ remaining_buffers' = <<>>
            /\ k' = 0
            /\ nrounds' = Bump(nrounds)
            /\ pc' = "p2_for"
            /\ UNCHANGED <<callVars, n, num_features, num_per_block, num_buffers,
                           shape, i, block, buffers, ioVars, preVars, error>>
            /\ pulled' = <<>>
            /\ UNCHANGED <<scopeAcquired, nreads, nslotwrites, ncursors, nwrites,
                           failedAt, failedIndex, nshuffles, writeSizes, retired>>

\* for i, buffer in enumerate(buffers[:]): one pass of the body, or the end
\* of the list
P2_For ==
    /\ pc = "p2_for"
    /\ \/ /\ k >= Len(buffers)
          /\ pc' = "p2_after"
          /\ UNCHANGED <<callVars, frameVars, ioVars, histVars, logVars, preVars, error>>
       \/ /\ k < Len(buffers)
          /\ CursorExhausted(buffers[k + 1].slot)
          \* next(buffer) raises StopIteration: continue
          /\ i' = k
          /\ k' = k + 1
          /\ pc' = "p2_for"
          /\ pulled' = Append(pulled,
                 [slot |-> buffers[k + 1].slot, rows |-> 0, ended |-> TRUE])
          /\ retired' = retired \cup {buffers[k + 1].slot}
          /\ UNCHANGED <<callVars, n, num_features, num_per_block, num_buffers,
                         shape, block, buffers, current_block, remaining_buffers>>
          /\ UNCHANGED <<ioVars, histVars, nshuffles, writeSizes, preVars, error>>
       \/ /\ k < Len(buffers)
          /\ ~CursorExhausted(buffers[k + 1].slot)
          /\ LET b == buffers[k + 1]
                 chunk == CursorChunk(b.slot, b.chunk)
             IN /\ block' = chunk
                /\ cursorPos' = [cursorPos EXCEPT ![b.slot] = @ + Len(chunk)]
                /\ remaining_buffers' = Append(remaining_buffers, b)
                /\ current_block' = Combine(current_block, chunk)
                /\ pulled' = Append(pulled,
                       [slot |-> b.slot, rows |-> Len(chunk), ended |-> FALSE])
          /\ i' = k
          /\ k' = k + 1
          /\ pc' = "p2_for"
          /\ UNCHANGED <<callVars, n, num_features, num_per_block, num_buffers,
                         shape, buffers>>
          /\ UNCHANGED <<file, rpos, writerUsed, scopeOpen, slots>>
          /\ UNCHANGED <<histVars, nshuffles, writeSizes, retired, preVars, error>>
       \/ /\ k < Len(buffers)
          /\ Raise("DatasetReadError", "p2_for")

\* (variant: the list of cursors is not replaced by the survivors)
P2_AfterKeepsBuffers ==
    /\ pc = "p2_after"
    /\ buffers' = buffers
    /\ pc' = IF IsNone(current_block) THEN "p2_while" ELSE "p2_shuffle"
    /\ UNCHANGED <<callVars, n, num_features, num_per_block, num_buffers, shape,
                   i, k, block, current_block, remaining_buffers>>
    /\ UNCHANGED <<ioVars, histVars, logVars, preVars, error>>

\* buffers = remaining_buffers; if current_block is not None:
P2_After ==
    /\ pc = "p2_after"
    /\ buffers' = remaining_buffers
    /\ pc' = IF IsNone(current_block) THEN "p2_while" ELSE "p2_shuffle"
    /\ UNCHANGED <<callVars, n, num_features, num_per_block, num_buffers, shape,
                   i, k, block, current_block, remaining_buffers>>
    /\ UNCHANGED <<ioVars, histVars, logVars, preVars, error>>

\* np.random.shuffle(current_block)
P2_Shuffle ==
    /\ pc = "p2_shuffle"
    /\ \E s \in ShuffleOutcomes(Get(current_block)) : current_block' = Some(s)
    /\ pc' = "p2_write"
    /\ UNCHANGED <<callVars, n, num_features, num_per_block, num_buffers, shape,
                   i, k, block, buffers, remaining_buffers>>
    /\ UNCHANGED <<ioVars, histVars, logVars, preVars, error>>

\* writer.write(current_block)
P2_Write ==
    /\ pc = "p2_write"
    /\ \/ /\ file' = WriterFile(Get(current_block))
          /\ writerUsed' = TRUE
          /\ nwrites' = Bump(nwrites)
          /\ pc' = "p2_while"
          /\ UNCHANGED <<callVars, frameVars, preVars, error>>
          /\ UNCHANGED <<rpos, scopeOpen, slots, cursorPos>>
          /\ writeSizes' = IF Len(writeSizes) < CountCap
                            THEN Append(writeSizes, Len(Get(current_block)))
                            ELSE writeSizes
          /\ UNCHANGED <<scopeAcquired, nreads, nslotwrites, ncursors, nrounds,
                         failedAt, failedIndex, nshuffles, pulled, retired>>
       \/ Raise("DatasetWriteError", "p2_write")

Next ==
    \/ ShuffleTrain
    \/ CallExternalShuffle
    \/ ES_Start
    \/ P1_Next
    \/ P1_Shuffle
    \/ P1_WriteBlock
    \/ P1_GetBuffer
    \/ P2_While
    \/ P2_For
    \/ P2_After
    \/ P2_Shuffle
    \/ P2_Write

Spec == Init /\ [][Next]_vars

FairSpec == Init /\ [][Next]_vars /\ WF_vars(Next)

\* --------------------------------------------- mlml.py: preprocess_arguments
\* bytes_per_dtype (utils/blocks.py): the storage width of an element type
Dtypes == {"uint8", "float16", "float32", "float64"}
BytesPerDtype(dtype) ==
    CASE dtype = "uint8" -> 1
      [] dtype = "float16" -> 2
      [] dtype = "float32" -> 4
      [] dtype = "float64" -> 8

Max(a, b) == IF a >= b THEN a ELSE b

\* bytes_total = float(arguments['--buffer']) * (10 ** 6)
BytesTotal(buffer) == buffer * (10 ^ 6)
\* bytes_per_sample = (arguments['--d'] + 1) * bytes_per_dtype(arguments['--dtype'])
BytesPerSample(d, dtype) == (d + 1) * BytesPerDtype(dtype)

\* (variant: max in place of min)
NumPerBlockMax(buffer, d, dtype, total) ==
    Max(BytesTotal(buffer) \div BytesPerSample(d, dtype), total)

\* arguments['--num-per-block'] = min(int(bytes_total // bytes_per_sample), arguments['--n'])
NumPerBlock(buffer, d, dtype, total) ==
    Min(BytesTotal(buffer) \div BytesPerSample(d, dtype), total)

\* the sample counts tried for a budget: the small ones and those around the
\* number of samples the budget holds
SampleCounts(buffer, d, dtype) ==
    LET q == BytesTotal(buffer) \div BytesPerSample(d, dtype)
    IN (0..MaxN8) \cup {c \in (q - MaxN8)..(q + MaxN8) : c >= 0}

InitPre ==
    /\ entry = "external_shuffle"
    /\ algorithm = "external_shuffle"
    /\ arg_n = 1 /\ arg_num_features = 0 /\ arg_num_per_block = 1
    /\ n = 0 /\ num_features = 0 /\ num_per_block = 0
    /\ num_buffers = [num |-> 0, den |-> 1]
    /\ shape = <<0, 0>>
    /\ i = 0 /\ k = 0
    /\ block = <<>>
    /\ buffers = <<>>
    /\ current_block = None
    /\ remaining_buffers = <<>>
    /\ file = File0
    /\ rpos = 0
    /\ writerUsed = FALSE
    /\ scopeOpen = FALSE
    /\ slots = EmptyMap
    /\ cursorPos = EmptyMap
    /\ pc = "idle"
    /\ error = ""
    /\ scopeAcquired = FALSE
    /\ nreads = 0 /\ nslotwrites = 0 /\ ncursors = 0 /\ nwrites = 0 /\ nrounds = 0
    /\ failedAt = ""
    /\ failedIndex = 0
    /\ nshuffles = 0
    /\ writeSizes = <<>>
    /\ pulled = <<>>
    /\ retired = {}
    /\ ppc = "args"
    /\ buffer_mb \in 0..MaxBufferMB
    /\ d8 \in 0..MaxD8
    /\ dtype8 \in Dtypes
    /\ n8 \in SampleCounts(buffer_mb, d8, dtype8)
    /\ npb8 = 0

PreprocessArguments ==
    /\ ppc = "args"
    /\ npb8' = NumPerBlock(buffer_mb, d8, dtype8, n8)
    /\ ppc' = "ready"
    /\ UNCHANGED <<buffer_mb, d8, dtype8, n8>>
    /\ UNCHANGED <<callVars, frameVars, ioVars, histVars, logVars, pc, error>>

NextPre == PreprocessArguments

SpecPre == InitPre /\ [][NextPre]_vars

\* ============================================================== properties
Running == pc \in {"p1_next", "p1_shuffle", "p1_write", "p1_cursor",
                   "p2_while", "p2_for", "p2_after", "p2_shuffle", "p2_write"}
InPhase1 == pc \in {"p1_next", "p1_shuffle", "p1_write", "p1_cursor"}
InPhase2 == pc \in {"p2_while", "p2_for", "p2_after", "p2_shuffle", "p2_write"}

\* external_shuffle got past its first line
RanShuffle == scopeAcquired

\* external_shuffle was told the truth about the file: it holds n rows of
\* num_features + 1 values, and 1 <= num_per_block <= n
Consistent ==
    /\ RanShuffle
    /\ 1 <= num_per_block /\ num_per_block <= n
    /\ Len(File0) = n * (num_features + 1)

\* n divides into blocks and a block divides into one chunk per block
EvenDivision ==
    /\ num_per_block >= 1
    /\ n % num_per_block = 0
    /\ n \div num_per_block >= 1
    /\ num_per_block % (n \div num_per_block) = 0

RowWidth == num_features + 1

\* rows of the combined buffer of the current round
CombinedRows == IF IsNone(current_block) THEN 0 ELSE Len(Get(current_block))

\* C1: when a run of external_shuffle completes with n evenly divisible by
\* num_per_block and num_per_block by n / num_per_block, the rows in the output
\* file are, as a multiset, the rows of the input file.
C1_Permutation ==
    (pc = "done" /\ RanShuffle /\ EvenDivision)
        => SameMultiset(Rows(file, RowWidth), Rows(File0, RowWidth))

C1_Witness ==
    /\ pc = "done" /\ Consistent /\ EvenDivision
    /\ n = 8 /\ num_per_block = 4
    /\ nwrites = 2
    /\ file # File0

C3_BoundedMemory_Original ==
    Consistent
        => /\ InPhase1 => Len(block) <= num_per_block
           /\ InPhase2 => CombinedRows <= num_per_block

\* C3 amended: the block just read never holds more than num_per_block rows;
\* the combined buffer holds at most num_per_block rows when n is evenly
\* divisible by num_per_block.
C3_BoundedMemory ==
    Consistent
        => /\ InPhase1 => Len(block) <= num_per_block
           /\ (InPhase2 /\ n % num_per_block = 0) => CombinedRows <= num_per_block

C3_Witness ==
    /\ Consistent /\ pc = "p2_after"
    /\ n = 8 /\ num_per_block = 4
    /\ CombinedRows = 4

\* C4: every run of external_shuffle ends: the while loop reaches an empty
\* cursor list (or the run fails).
C4_Terminates == <>(pc \in {"done", "failed"})

\* C5: once a run has ended, by returning or by raising at any step, the
\* scope is closed and no scratch slot is left.
C5_ScopeCleanup ==
    pc \in {"done", "failed"} => (~scopeOpen /\ DOMAIN slots = {})

C5_Witness ==
    /\ pc = "failed" /\ failedAt = "p2_write"
    /\ nslotwrites >= 2
    /\ ~scopeOpen /\ DOMAIN slots = {}

\* C6: when scope.write_block fails in Phase 1, the run has failed with that
\* error, nothing was or is written to the dataset file, and the slots written
\* before are gone.
C6_Phase1WriteFailure ==
    failedAt = "p1_write"
        => /\ pc = "failed"
           /\ error = "DatasetWriteError"
           /\ nwrites = 0
           /\ ~writerUsed
           /\ file = File0
           /\ DOMAIN slots = {}

C6_Witness ==
    /\ failedAt = "p1_write" /\ pc = "failed"
    /\ failedIndex >= 1
    /\ nslotwrites = failedIndex

\* C7: shuffle_train with an algorithm outside ALGORITHMS fails at once: no
\* scope was entered, nothing was read, no slot and no block was written.
C7_InvalidAlgorithm ==
    (entry = "shuffle_train" /\ algorithm \notin ALGORITHMS /\ pc # "call")
        => /\ pc = "failed"
           /\ error = "AssertionError"
           /\ ~scopeAcquired
           /\ nreads = 0 /\ nslotwrites = 0 /\ ncursors = 0 /\ nwrites = 0
           /\ rpos = 0
           /\ file = File0

C7_Witness ==
    /\ entry = "shuffle_train" /\ algorithm = "bogus"
    /\ pc = "failed" /\ failedAt = "shuffle_train"

\* C8: the computed --num-per-block is min(floor(bytes_total / bytes_per_sample), n):
\* it fits the budget and does not exceed n.
C8_Budget ==
    ppc = "ready"
        => LET bps == (d8 + 1) * BytesPerDtype(dtype8)
               budget == buffer_mb * 1000000
           IN /\ npb8 * bps <= budget
              /\ npb8 <= n8
              /\ \/ npb8 = n8
                 \/ (npb8 + 1) * bps > budget

C8_Witness ==
    /\ ppc = "ready"
    /\ npb8 > 0 /\ npb8 < n8
    /\ d8 = 2 /\ dtype8 = "float64"

\* C9: the num_features and num_per_block shuffle_train is called with are the
\* num_features and num_per_block external_shuffle runs with, and the reader's
\* block shape is (num_per_block, num_features + 1) of the caller.
C9_ArgumentsReach ==
    (entry = "shuffle_train" /\ algorithm = "external_shuffle" /\ pc # "call")
        => /\ num_per_block = arg_num_per_block
           /\ num_features = arg_num_features
           /\ n = arg_n
           /\ Running => shape = <<arg_num_per_block, arg_num_features + 1>>

\* C10 as stated: with n = num_per_block the while loop runs one round with one
\* cursor and one block holding all n rows is written.
C10_SingleBlock_Original ==
    (pc = "done" /\ Consistent /\ n = num_per_block)
        => /\ nrounds = 1
           /\ ncursors = 1
           /\ nwrites = 1
           /\ SameMultiset(Rows(file, RowWidth), Rows(File0, RowWidth))

\* C10 amended: with n = num_per_block the while loop runs two rounds over one
\* cursor: the first writes one block holding all n rows, the second finds the
\* cursor exhausted and writes nothing.
C10_SingleBlock ==
    (pc = "done" /\ Consistent /\ n = num_per_block)
        => /\ nrounds = 2
           /\ ncursors = 1
           /\ nwrites = 1
           /\ SameMultiset(Rows(file, RowWidth), Rows(File0, RowWidth))

C10_Witness ==
    /\ pc = "done" /\ Consistent
    /\ n = 5 /\ num_per_block = 5
    /\ nrounds = 2 /\ nwrites = 1
    /\ file # File0

\* C11: shuffle_train with algorithm = 'external_sort' runs no step of the
\* external shuffle: no scope is entered, no block is read or shuffled, no slot
\* is written, no cursor opened, no round runs and nothing is written to the file.
C11_SortIsNotShuffle ==
    (entry = "shuffle_train" /\ algorithm = "external_sort")
        => /\ pc \in {"call", "done"}
           /\ ~scopeAcquired
           /\ nreads = 0 /\ nshuffles = 0 /\ nslotwrites = 0 /\ ncursors = 0
           /\ nrounds = 0 /\ nwrites = 0 /\ writeSizes = <<>>
           /\ file = File0

C11_Witness ==
    /\ entry = "shuffle_train" /\ algorithm = "external_sort"
    /\ pc = "done"
    /\ arg_n = 4 /\ arg_num_per_block = 2

\* the slots of a list of cursors, in list order
SlotsOf(cursors) == [j \in DOMAIN cursors |-> cursors[j].slot]
\* the slot indices 0 .. c - 1 in order
FirstSlots(c) == [j \in 1..c |-> j - 1]

\* C12: for each block index i the reader yields, Phase 1 shuffles block i, then
\* writes slot i, then opens a cursor on slot i, once each: a cursor is never
\* opened on an unwritten slot, no slot is written twice, and when Phase 1 ends
\* the cursor list holds one cursor per block read, in block-index order.
C12_Phase1Order ==
    /\ error # "SlotNotFound"
    /\ nreads >= nshuffles /\ nshuffles >= nslotwrites
    /\ nslotwrites >= ncursors /\ ncursors >= nreads - 1
    /\ scopeOpen => DOMAIN slots = 0..(nslotwrites - 1)
    /\ pc = "p1_next" => (nshuffles = nreads /\ nslotwrites = nreads /\ ncursors = nreads)
    /\ pc = "p1_shuffle" =>
           (nreads = i + 1 /\ nshuffles = i /\ nslotwrites = i /\ ncursors = i)
    /\ pc = "p1_write" =>
           (nshuffles = i + 1 /\ nslotwrites = i /\ ncursors = i /\ i \notin DOMAIN slots)
    /\ pc = "p1_cursor" =>
           (nshuffles = i + 1 /\ nslotwrites = i + 1 /\ ncursors = i
            /\ i \in DOMAIN slots /\ i \notin DOMAIN cursorPos)
    /\ InPhase1 => SlotsOf(buffers) = FirstSlots(ncursors)
    /\ (pc = "p2_while" /\ nrounds = 0) =>
           (ncursors = nreads /\ SlotsOf(buffers) = FirstSlots(nreads))

C12_Witness ==
    /\ pc = "p2_while" /\ nrounds = 0 /\ Consistent
    /\ n = 7 /\ num_per_block = 3
    /\ nreads = 3 /\ nshuffles = 3 /\ nslotwrites = 3
    /\ SlotsOf(buffers) = <<0, 1, 2>>

\* Phase 1 has just ended: the reader is exhausted and no round has begun
Phase1Ended == pc = "p2_while" /\ nrounds = 0

\* C13 as stated: for every n and 1 <= num_per_block <= n, the num_buffers the
\* chunk size is computed from equals the number of blocks Phase 1 read (and
\* the number of cursors opened), uneven divisions included.
C13_RealBlockCount_Original ==
    (Phase1Ended /\ Consistent)
        => /\ ncursors = nreads
           /\ num_buffers.num = nreads * num_buffers.den

\* C13 amended: Phase 1 reads ceil(n / num_per_block) blocks and opens as many
\* cursors; num_buffers = n / num_per_block equals that number when n is evenly
\* divisible by num_per_block, and is a smaller fraction otherwise.
C13_RealBlockCount ==
    (Phase1Ended /\ Consistent)
        => /\ ncursors = nreads
           /\ (nreads - 1) * num_per_block < n
           /\ n <= nreads * num_per_block
           /\ n % num_per_block = 0 => num_buffers.num = nreads * num_buffers.den
           /\ n % num_per_block # 0 => num_buffers.num < nreads * num_buffers.den

C13_Witness ==
    /\ Phase1Ended /\ Consistent
    /\ n = 8 /\ num_per_block = 5
    /\ nreads = 2 /\ ncursors = 2
    /\ num_buffers = [num |-> 8, den |-> 5]
    /\ buffers[1].chunk = 3

RECURSIVE SumRows(_)
SumRows(pulls) ==
    IF pulls = <<>> THEN 0 ELSE Head(pulls).rows + SumRows(Tail(pulls))

Yielded(p) == ~p.ended
\* the slots of the pulls of this round that yielded a chunk, in pull order
SurvivorSlots == SlotsOf(SelectSeq(pulled, Yielded))
Increasing(q) == \A a, b \in DOMAIN q : a < b => q[a] < q[b]
Range(q) == {q[j] : j \in DOMAIN q}

\* C14: in each round every cursor active at its start is pulled once, in list
\* order; a cursor that signals end-of-sequence adds no rows, is not among the
\* survivors and is in no later round; the cursors that yielded survive in
\* their order; Phase 2 adds no cursor.
C14_RoundDiscipline ==
    /\ InPhase2 =>
           /\ ncursors = nreads
           /\ DOMAIN cursorPos = 0..(ncursors - 1)
           /\ Range(SlotsOf(buffers)) \subseteq 0..(ncursors - 1)
           /\ Increasing(SlotsOf(buffers))
    /\ pc = "p2_for" =>
           /\ k <= Len(buffers)
           /\ SlotsOf(pulled) = SlotsOf(SubSeq(buffers, 1, k))
    /\ pc = "p2_after" => SlotsOf(pulled) = SlotsOf(buffers)
    /\ pc \in {"p2_for", "p2_after"} =>
           /\ SlotsOf(remaining_buffers) = SurvivorSlots
           /\ CombinedRows = SumRows(pulled)
           /\ IsNone(current_block) <=> SurvivorSlots = <<>>
           /\ \A j \in DOMAIN pulled :
                  /\ pulled[j].ended => pulled[j].slot \in retired
                  /\ ~pulled[j].ended => pulled[j].slot \notin retired
    /\ (pc \in {"p2_shuffle", "p2_write"} \/ (pc = "p2_while" /\ nrounds > 0)) =>
           /\ SlotsOf(buffers) = SurvivorSlots
           /\ Range(SlotsOf(buffers)) = (0..(ncursors - 1)) \ retired

C14_Witness ==
    /\ pc = "p2_while" /\ Consistent
    /\ n = 7 /\ num_per_block = 3
    /\ retired = {2}
    /\ SlotsOf(buffers) = <<0, 1>>
    /\ Len(pulled) = 3

\* rows written before the j-th block given to the writer
RECURSIVE RowsBefore(_, _)
RowsBefore(sizes, j) ==
    IF j <= 1 THEN 0 ELSE sizes[j - 1] + RowsBefore(sizes, j - 1)

\* the j-th block given to the writer, read back from the file
WrittenBlock(j) ==
    SubSeq(Rows(file, RowWidth),
           RowsBefore(writeSizes, j) + 1,
           RowsBefore(writeSizes, j) + writeSizes[j])

\* the index of the Phase 1 block a row was read in: rows of the input file
\* start with the values 1, 1 + RowWidth, 1 + 2 * RowWidth, ...
OriginBlock(row) == ((row[1] - 1) \div RowWidth) \div num_per_block

FromBlock(blk, b) == Cardinality({j \in DOMAIN blk : OriginBlock(blk[j]) = b})

\* C15: under even division the writer is called n / num_per_block times, every
\* block written has num_per_block rows, and every block written holds
\* num_per_block / (n / num_per_block) rows of each block read in Phase 1.
C15_EmittedBlocks ==
    (Consistent /\ EvenDivision)
        => LET numBlocks == n \div num_per_block
           IN /\ Len(writeSizes) = nwrites
              /\ nwrites <= numBlocks
              /\ pc = "done" => nwrites = numBlocks
              /\ \A j \in DOMAIN writeSizes :
                     /\ writeSizes[j] = num_per_block
                     /\ \A b \in 0..(numBlocks - 1) :
                            FromBlock(WrittenBlock(j), b) = num_per_block \div numBlocks

C15_Witness ==
    /\ pc = "done" /\ Consistent /\ EvenDivision
    /\ n = 8 /\ num_per_block = 4
    /\ writeSizes = <<4, 4>>
    /\ FromBlock(WrittenBlock(2), 0) = 2
    /\ FromBlock(WrittenBlock(2), 1) = 2

\* C16: nothing is given to the writer before the reader over train_path has
\* been consumed to the end and Phase 1 is over, and once the writer has
\* written the reader is never advanced again.
C16_ReadsPrecedeWrites ==
    /\ [](writerUsed => (rpos = Len(File0) /\ ~InPhase1))
    /\ [][writerUsed => (rpos' = rpos /\ nreads' = nreads)]_vars

C16_Witness ==
    /\ writerUsed
    /\ pc = "p2_for"
    /\ nreads >= 3
    /\ Len(writeSizes) >= 2
    /\ rpos = Len(File0)

\* C17: for n >= 1 and 1 <= num_per_block <= n, every block given to the
\* writer has at least one row, and a block about to be written is non-empty.
C17_NonEmptyWrites ==
    Consistent
        => /\ \A j \in DOMAIN writeSizes : writeSizes[j] >= 1
           /\ pc = "p2_write" => Len(Get(current_block)) >= 1

\* C18: for n >= 1 the --num-per-block computed by preprocess_arguments is at
\* least 1, so that n / num_per_block in external_shuffle is defined.
C18_UsableBlockSize ==
    (ppc = "ready" /\ n8 >= 1) => npb8 >= 1

====
